---- MODULE Spec2Model ----
(***************************************************************************)
(* Model of the bennu authentication handlers (handlers/auth.go) and of    *)
(* the process lifecycle in main (listen, signal, graceful shutdown).      *)
(*                                                                         *)
(* The user collection lives in an external MongoDB database that outlives *)
(* the process, so the initial store is any small collection of well       *)
(* formed records (hashed passwords, either value of the verified flag).   *)
(***************************************************************************)
EXTENDS Integers, Sequences, FiniteSets, TLC

\* ---------------------------------------------------------------- bounds
MaxUsers == 2       \* records the user collection may hold
MaxSeed == 1        \* records already in the collection at start-up
MaxSalt == 1        \* distinct salts bcrypt may draw
MaxTokens == 2      \* distinct token values a client may present
MaxRequestID == 1   \* request ids are drawn from 0..MaxRequestID, in turn
MaxInflight == 2    \* connections being served at the same time

\* ------------------------------------------------------ program constants
BcryptCost == 14
StatusOK == 200
StatusCreated == 201
StatusBadRequest == 400
StatusNotFound == 404
StatusInternalServerError == 500

Emails == {"a@b.com", "c@d.com"}
Plain == {"p1", "p2"}
Salts == 1..MaxSalt
Tokens == 1..MaxTokens

VARIABLES
    users,            \* the user collection, in insertion order; id = index
    req,              \* the request handled last, with the id RequestID gave it
    resp,             \* the response written for it
    pcMain,           \* position of the main goroutine
    pcSrv,            \* position of the goroutine running ListenAndServe
    inflight,         \* connections accepted and not yet finished
    sigCh,            \* signals buffered in sigCh (capacity 1)
    connected,        \* the mongo client is connected (Disconnect not yet run)
    shutdownReturned, \* srv.Shutdown has returned
    exit              \* how the process ended, "running" while it has not

authVars == <<users, req, resp>>
mainVars == <<pcMain, pcSrv, inflight, sigCh, connected, shutdownReturned, exit>>
vars == <<users, req, resp,
          pcMain, pcSrv, inflight, sigCh, connected, shutdownReturned, exit>>

\* ------------------------------------------------------------- strings
\* A string held in a password field.  A bcrypt hash string carries its
\* version, cost and salt next to the digest; a plain string carries none.
Str(p) == [alg |-> "plain", cost |-> 0, salt |-> 0, key |-> p]

\* bcrypt.GenerateFromPassword(password, cost) drawing the salt `salt`
GenerateFromPassword(p, cost, salt) ==
    [alg |-> "2a", cost |-> cost, salt |-> salt, key |-> p]

\* bcrypt.CompareHashAndPassword(hash, password) = nil
CompareHashAndPassword(h, p) == h.alg = "2a" /\ h.key = p

IsHash(h) == h.alg = "2a"

\* ------------------------------------------------------------- requests
\* What json.Decoder.Decode(&ptr) is given: an empty body (io.EOF), a body
\* that is not JSON (syntax error), the literal null (no error, ptr stays
\* nil) or an object.
RegisterBodies ==
    {[kind |-> k, email |-> "", password |-> "", verified |-> FALSE] :
         k \in {"empty", "invalid", "null"}}
    \cup {[kind |-> "object", email |-> e, password |-> p, verified |-> v] :
         e \in Emails, p \in Plain, v \in BOOLEAN}

LoginBodies ==
    {[kind |-> k, email |-> "", password |-> "", verified |-> FALSE] :
         k \in {"empty", "invalid", "null"}}
    \cup {[kind |-> "object", email |-> e, password |-> p, verified |-> FALSE] :
         e \in Emails, p \in Plain}

\* json.NewDecoder(r.Body).Decode(&payload): the error it returns, "" for nil
DecodeErr(body) ==
    CASE body.kind = "empty" -> "EOF"
      [] body.kind = "invalid" -> "invalid character"
      [] OTHER -> ""

\* the pointer Decode leaves behind is nil
DecodedNil(body) == body.kind = "null"

NoBody == [kind |-> "empty", email |-> "", password |-> "", verified |-> FALSE]

\* middlewares.RequestID gives every request an id of its own
NextRequestID(id) == (id + 1) % (MaxRequestID + 1)

Request(op, body, tok, id) == [op |-> op, body |-> body, tok |-> tok, id |-> id]

\* status and message written to the client; cookie is the refresh token
\* set on the response, 0 when the handler sets none
Response(op, status, msg) == [op |-> op, status |-> status, msg |-> msg, cookie |-> 0]

\* ----------------------------------------------------------- the store
\* Records found in the collection at start-up: created before the process
\* started, password hashed, either value of the verified flag.
StoredRecords ==
    {[email |-> e, password |-> GenerateFromPassword(p, BcryptCost, s), verified |-> v,
      createdAt |-> "before start", updatedAt |-> "before start"] :
         e \in Emails, p \in Plain, s \in Salts, v \in BOOLEAN}

RECURSIVE SeqsUpTo(_, _)
SeqsUpTo(S, n) ==
    IF n = 0 THEN {<<>>}
    ELSE SeqsUpTo(S, n - 1) \cup
         {Append(q, r) : q \in {t \in SeqsUpTo(S, n - 1) : Len(t) = n - 1}, r \in S}

DistinctEmails(store) ==
    \A i, j \in 1..Len(store) : store[i].email = store[j].email => i = j

SeedStores ==
    {q \in SeqsUpTo(StoredRecords, IF MaxSeed < MaxUsers THEN MaxSeed ELSE MaxUsers) :
         DistinctEmails(q)}

LoginWhereEmailOnly(payload) == [email |-> payload.email]

\* dao.Where of Login: $and [ {email: payload.Email}, {verified: true} ]
LoginWhere(payload) == [email |-> payload.email, verified |-> TRUE]

\* a record satisfies a filter when it agrees with it on every key
Matches(rec, where) == \A k \in DOMAIN where : rec[k] = where[k]

\* UserDao.FindOne: the index of the first record matching the filter,
\* 0 when there is none (not-found error)
FindOne(store, where) ==
    IF \E i \in 1..Len(store) : Matches(store[i], where)
    THEN CHOOSE i \in 1..Len(store) :
             /\ Matches(store[i], where)
             /\ \A j \in 1..(i - 1) : ~Matches(store[j], where)
    ELSE 0

\* UserDao.Create: the collection after inserting the record
Create(store, rec) == Append(store, rec)

\* ------------------------------------------------------------ handlers
\* Why a login with an object body is turned down, "" when it is not
LoginCause(store, body) ==
    IF FindOne(store, LoginWhere(body)) # 0
    THEN IF CompareHashAndPassword(store[FindOne(store, LoginWhere(body))].password,
                                   body.password)
         THEN "" ELSE "badpassword"
    ELSE IF \E i \in 1..Len(store) : store[i].email = body.email
         THEN "unverified" ELSE "unknown"

\* AuthHandler.Login: the response, storeErr telling whether the store call
\* itself failed (timeout, unavailability)
LoginResponse(store, body, storeErr) ==
    IF DecodeErr(body) # ""
    THEN Response("Login", StatusBadRequest, DecodeErr(body))
    ELSE IF DecodedNil(body)
    THEN Response("Login", StatusInternalServerError, "panic: nil pointer dereference")
    ELSE IF storeErr
    THEN Response("Login", StatusBadRequest, "store error")
    ELSE IF FindOne(store, LoginWhere(body)) = 0
    THEN Response("Login", StatusBadRequest, "mongo: no documents in result")
    ELSE IF ~CompareHashAndPassword(store[FindOne(store, LoginWhere(body))].password,
                                    body.password)
    THEN Response("Login", StatusNotFound, "invalid username or password")
    ELSE Response("Login", StatusOK, "token")

\* what the store call can do for a body: it is reached, and so can fail,
\* only when the body decoded into a payload
LoginStoreErrs(body) == IF body.kind = "object" THEN BOOLEAN ELSE {FALSE}

Login(body, storeErr) ==
    /\ req' = Request("Login", body, 0, NextRequestID(req.id))
    /\ resp' = LoginResponse(users, body, storeErr)
    /\ users' = users
    /\ UNCHANGED mainVars

RegisterRecordKeepVerified(body, salt) ==
    [email |-> body.email,
     password |-> GenerateFromPassword(body.password, BcryptCost, salt),
     verified |-> body.verified,
     createdAt |-> "now", updatedAt |-> "now"]

RegisterRecordPlain(body, salt) ==
    [email |-> body.email, password |-> Str(body.password), verified |-> FALSE,
     createdAt |-> "now", updatedAt |-> "now"]

\* AuthHandler.Register: the record handed to Create; time.Now() is after
\* the start of the process
RegisterRecord(body, salt) ==
    [email |-> body.email,
     password |-> GenerateFromPassword(body.password, BcryptCost, salt),
     verified |-> FALSE,
     createdAt |-> "now", updatedAt |-> "now"]

\* what bcrypt and the store can do for a body: the salt drawn and whether
\* hashing and Create succeed; Create is reached only when hashing succeeded,
\* and neither is reached unless the body decoded into a record
RegisterEnvs(body) ==
    IF body.kind = "object"
    THEN {[hashOk |-> FALSE, salt |-> 1, createOk |-> FALSE]} \cup
         {[hashOk |-> TRUE, salt |-> s, createOk |-> c] : s \in Salts, c \in BOOLEAN}
    ELSE {[hashOk |-> FALSE, salt |-> 1, createOk |-> FALSE]}

Register(body, salt, hashOk, createOk) ==
    /\ req' = Request("Register", body, 0, NextRequestID(req.id))
    /\ IF DecodeErr(body) # ""
       THEN /\ resp' = Response("Register", StatusBadRequest, DecodeErr(body))
            /\ users' = users
       ELSE IF DecodedNil(body)
       THEN /\ resp' = Response("Register", StatusInternalServerError,
                                "panic: nil pointer dereference")
            /\ users' = users
       ELSE IF ~hashOk
       THEN /\ resp' = Response("Register", StatusInternalServerError, "bcrypt error")
            /\ users' = users
       ELSE IF ~createOk
       THEN /\ resp' = Response("Register", StatusBadRequest, "create error")
            /\ users' = users
       ELSE /\ Len(users) < MaxUsers
            /\ users' = Create(users, RegisterRecord(body, salt))
            /\ resp' = Response("Register", StatusCreated, "id")
    /\ UNCHANGED mainVars

\* A handler with an empty body writes nothing: net/http answers 200 with no
\* body and no cookie, and no store is touched.
Stub(op, tok) ==
    /\ req' = Request(op, NoBody, tok, NextRequestID(req.id))
    /\ resp' = Response(op, StatusOK, "")

CSRF ==
    /\ Stub("CSRF", 0)
    /\ users' = users
    /\ UNCHANGED mainVars

ResetPassword ==
    /\ Stub("ResetPassword", 0)
    /\ users' = users
    /\ UNCHANGED mainVars

\* The code mints no verification token (Register leaves it as a TODO); a
\* request names the account it is for by the record's id, so the token of
\* record i is the value i, issued once record i exists.
VerifyEmail(tok) ==
    /\ Stub("VerifyEmail", tok)
    /\ users' = users
    /\ UNCHANGED mainVars

VerifyResetPassword(tok) ==
    /\ Stub("VerifyResetPassword", tok)
    /\ users' = users
    /\ UNCHANGED mainVars

\* tok is the refresh token the cookie of the request carries
TokenRefresh(tok) ==
    /\ Stub("TokenRefresh", tok)
    /\ users' = users
    /\ UNCHANGED mainVars

Logout(tok) ==
    /\ Stub("Logout", tok)
    /\ users' = users
    /\ UNCHANGED mainVars

\* ---------------------------------------------------------------- main
\* log.Fatalf and os.Exit end the process at once: no deferred call runs.
Running == exit = "running"

\* srv.Shutdown has been called: the listeners are closed and
\* ListenAndServe returns ErrServerClosed
InShutdown == pcMain \in {"draining", "shutdownErr", "return", "sync"}

\* logger.New, lines 66-70
LoggerNew(ok) ==
    /\ Running /\ pcMain = "logger"
    /\ IF ok THEN pcMain' = "config" /\ exit' = exit
             ELSE pcMain' = pcMain /\ exit' = "exit 1: logger new error"
    /\ UNCHANGED <<pcSrv, inflight, sigCh, connected, shutdownReturned>>
    /\ UNCHANGED authVars

\* c.ReadInConfig and c.Unmarshal, lines 96-107
ReadConfig(ok) ==
    /\ Running /\ pcMain = "config"
    /\ IF ok THEN pcMain' = "connect" /\ exit' = exit
             ELSE pcMain' = pcMain /\ exit' = "fatal: config error"
    /\ UNCHANGED <<pcSrv, inflight, sigCh, connected, shutdownReturned>>
    /\ UNCHANGED authVars

\* mongo.Connect and the deferred Disconnect, lines 110-121
Connect(ok) ==
    /\ Running /\ pcMain = "connect"
    /\ IF ok THEN pcMain' = "ping" /\ connected' = TRUE /\ exit' = exit
             ELSE pcMain' = pcMain /\ connected' = connected
                  /\ exit' = "fatal: db connect error"
    /\ UNCHANGED <<pcSrv, inflight, sigCh, shutdownReturned>>
    /\ UNCHANGED authVars

\* client.Ping, lines 122-126
Ping(ok) ==
    /\ Running /\ pcMain = "ping"
    /\ IF ok THEN pcMain' = "validator" /\ exit' = exit
             ELSE pcMain' = pcMain /\ exit' = "fatal: db ping error"
    /\ UNCHANGED <<pcSrv, inflight, sigCh, connected, shutdownReturned>>
    /\ UNCHANGED authVars

\* validator.New, lines 145-148
ValidatorNew(ok) ==
    /\ Running /\ pcMain = "validator"
    /\ IF ok THEN pcMain' = "go" /\ exit' = exit
             ELSE pcMain' = pcMain /\ exit' = "fatal: validator new error"
    /\ UNCHANGED <<pcSrv, inflight, sigCh, connected, shutdownReturned>>
    /\ UNCHANGED authVars

\* go func() { srv.ListenAndServe() ... }(), line 170
GoListen ==
    /\ Running /\ pcMain = "go"
    /\ pcMain' = "notify"
    /\ pcSrv' = "listen"
    /\ UNCHANGED <<inflight, sigCh, connected, shutdownReturned, exit>>
    /\ UNCHANGED authVars

\* signal.Notify(sigCh, os.Interrupt, syscall.SIGTERM), lines 178-179
Notify ==
    /\ Running /\ pcMain = "notify"
    /\ pcMain' = "wait"
    /\ UNCHANGED <<pcSrv, inflight, sigCh, connected, shutdownReturned, exit>>
    /\ UNCHANGED authVars

\* The operating system delivers SIGINT or SIGTERM.  Before Notify the
\* default disposition ends the process; after it the signal is buffered
\* in sigCh, and dropped when the buffer is full.
Signal ==
    /\ Running
    /\ IF pcMain \in {"logger", "config", "connect", "ping", "validator", "go", "notify"}
       THEN exit' = "killed by signal" /\ sigCh' = sigCh
       ELSE exit' = exit /\ sigCh = 0 /\ sigCh' = 1
    /\ UNCHANGED <<pcMain, pcSrv, inflight, connected, shutdownReturned>>
    /\ UNCHANGED authVars

\* sig := <-sigCh, line 180
Receive ==
    /\ Running /\ pcMain = "wait" /\ sigCh = 1
    /\ sigCh' = 0
    /\ pcMain' = "shutdown"
    /\ UNCHANGED <<pcSrv, inflight, connected, shutdownReturned, exit>>
    /\ UNCHANGED authVars

\* srv.Shutdown(shutdownCtx) is called and closes the listeners, line 185
ShutdownBegin ==
    /\ Running /\ pcMain = "shutdown"
    /\ pcMain' = "draining"
    /\ UNCHANGED <<pcSrv, inflight, sigCh, connected, shutdownReturned, exit>>
    /\ UNCHANGED authVars

\* srv.Shutdown returns nil once no connection is active
ShutdownDrained ==
    /\ Running /\ pcMain = "draining" /\ inflight = 0
    /\ shutdownReturned' = TRUE
    /\ pcMain' = "return"
    /\ UNCHANGED <<pcSrv, inflight, sigCh, connected, exit>>
    /\ UNCHANGED authVars

\* srv.Shutdown returns the context's error when the timeout elapses first
ShutdownTimeout ==
    /\ Running /\ pcMain = "draining" /\ inflight > 0
    /\ shutdownReturned' = TRUE
    /\ pcMain' = "shutdownErr"
    /\ UNCHANGED <<pcSrv, inflight, sigCh, connected, exit>>
    /\ UNCHANGED authVars

\* log.Fatalf("shutdown error"), lines 186-188
ShutdownFatal ==
    /\ Running /\ pcMain = "shutdownErr"
    /\ exit' = "fatal: shutdown error"
    /\ UNCHANGED <<pcMain, pcSrv, inflight, sigCh, connected, shutdownReturned>>
    /\ UNCHANGED authVars

\* main returns: the deferred client.Disconnect runs, lines 117-121
Disconnect(ok) ==
    /\ Running /\ pcMain = "return"
    /\ connected' = FALSE
    /\ IF ok THEN pcMain' = "sync" /\ exit' = exit
             ELSE pcMain' = pcMain /\ exit' = "fatal: db disconnect error"
    /\ UNCHANGED <<pcSrv, inflight, sigCh, shutdownReturned>>
    /\ UNCHANGED authVars

\* the deferred log.Sync runs and the process exits with status 0, line 71
MainReturn ==
    /\ Running /\ pcMain = "sync"
    /\ exit' = "exit 0"
    /\ UNCHANGED <<pcMain, pcSrv, inflight, sigCh, connected, shutdownReturned>>
    /\ UNCHANGED authVars

\* srv.ListenAndServe in the listener goroutine, line 171: it binds and
\* serves, or returns an error: the bind error, or ErrServerClosed as soon as
\* Shutdown has been called
ListenAndServe(bindOk) ==
    /\ Running /\ pcSrv \in {"listen", "serving"}
    /\ IF InShutdown
       THEN pcSrv' = "ErrServerClosed"
       ELSE /\ pcSrv = "listen"
            /\ pcSrv' = IF bindOk THEN "serving" ELSE "bind error"
    /\ UNCHANGED <<pcMain, inflight, sigCh, connected, shutdownReturned, exit>>
    /\ UNCHANGED authVars

\* if err != nil { log.Fatalf("listen and serve error") }, lines 171-173
ListenFatal ==
    /\ Running /\ pcSrv \in {"ErrServerClosed", "bind error"}
    /\ exit' = IF pcSrv = "ErrServerClosed"
               THEN "fatal: listen and serve error: http: Server closed"
               ELSE "fatal: listen and serve error: bind"
    /\ UNCHANGED <<pcMain, pcSrv, inflight, sigCh, connected, shutdownReturned>>
    /\ UNCHANGED authVars

\* the server accepts a connection and starts serving a request on it
Accept ==
    /\ Running /\ pcSrv = "serving" /\ ~InShutdown
    /\ inflight < MaxInflight
    /\ inflight' = inflight + 1
    /\ UNCHANGED <<pcMain, pcSrv, sigCh, connected, shutdownReturned, exit>>
    /\ UNCHANGED authVars

\* a request in flight is answered and its connection becomes idle
Finish ==
    /\ Running /\ inflight > 0
    /\ inflight' = inflight - 1
    /\ UNCHANGED <<pcMain, pcSrv, sigCh, connected, shutdownReturned, exit>>
    /\ UNCHANGED authVars

AuthInit ==
    /\ users \in SeedStores
    /\ req = Request("none", NoBody, 0, 0)
    /\ resp = Response("none", 0, "")

\* the handlers run while the process serves: main waits for a signal
Serving ==
    /\ pcMain = "wait"
    /\ pcSrv = "serving"
    /\ inflight = 0
    /\ sigCh = 0
    /\ connected = TRUE
    /\ shutdownReturned = FALSE
    /\ exit = "running"

Init == AuthInit /\ Serving

Next ==
    \/ \E body \in LoginBodies : \E storeErr \in LoginStoreErrs(body) :
          Login(body, storeErr)
    \/ \E body \in RegisterBodies : \E env \in RegisterEnvs(body) :
          Register(body, env.salt, env.hashOk, env.createOk)
    \/ CSRF
    \/ ResetPassword
    \/ \E tok \in Tokens : VerifyEmail(tok)
    \/ \E tok \in Tokens : VerifyResetPassword(tok)
    \/ \E tok \in Tokens : TokenRefresh(tok)
    \/ \E tok \in Tokens : Logout(tok)

Spec == Init /\ [][Next]_vars

\* the process from its start, with an empty collection and no request yet
MainInit ==
    /\ users = <<>>
    /\ req = Request("none", NoBody, 0, 0)
    /\ resp = Response("none", 0, "")
    /\ pcMain = "logger"
    /\ pcSrv = "idle"
    /\ inflight = 0
    /\ sigCh = 0
    /\ connected = FALSE
    /\ shutdownReturned = FALSE
    /\ exit = "running"

MainNext ==
    \/ \E ok \in BOOLEAN : LoggerNew(ok)
    \/ \E ok \in BOOLEAN : ReadConfig(ok)
    \/ \E ok \in BOOLEAN : Connect(ok)
    \/ \E ok \in BOOLEAN : Ping(ok)
    \/ \E ok \in BOOLEAN : ValidatorNew(ok)
    \/ GoListen
    \/ Notify
    \/ Signal
    \/ Receive
    \/ ShutdownBegin
    \/ ShutdownDrained
    \/ ShutdownTimeout
    \/ ShutdownFatal
    \/ \E ok \in BOOLEAN : Disconnect(ok)
    \/ MainReturn
    \/ \E bindOk \in BOOLEAN : ListenAndServe(bindOk)
    \/ ListenFatal
    \/ Accept
    \/ Finish

MainSpec == MainInit /\ [][MainNext]_vars

\* ------------------------------------------------------------ properties
Malformed == {"empty", "invalid", "null"}

\* a login with an object body that was turned down for its credentials:
\* unknown email, unverified account or wrong password
CredentialsRejected(r, rs, store) ==
    /\ rs.op = "Login" /\ r.body.kind = "object"
    /\ rs.msg # "store error"
    /\ LoginCause(store, r.body) # ""

\* C1: two logins in a row whose credentials are rejected get the same
\* status and message, whether the email is unknown, the account is
\* unverified or the password is wrong.
LoginNonEnumerable ==
    [][(CredentialsRejected(req, resp, users) /\ CredentialsRejected(req', resp', users'))
          => (resp'.status = resp.status /\ resp'.msg = resp.msg)]_vars

\* C2: Login answers 200 only if the collection holds a record with the
\* presented email that is verified and whose hash verifies the presented
\* password; so an unverified account is refused even with its password.
LoginSuccessRequiresVerifiedMatch ==
    (resp.op = "Login" /\ resp.status = StatusOK) =>
        /\ req.body.kind = "object"
        /\ \E i \in 1..Len(users) :
              /\ users[i].email = req.body.email
              /\ users[i].verified
              /\ CompareHashAndPassword(users[i].password, req.body.password)

LoginSucceeded ==
    /\ resp.op = "Login" /\ resp.status = StatusOK
    /\ \E i \in 1..Len(users) : users[i].email = req.body.email /\ users[i].verified

\* C3: when VerifyEmail has just answered 200 for an account that Register
\* created, a Login with that account's email and password (whose store
\* call does not fail) answers 200.
RegisterVerifyLoginSucceeds ==
    [][(/\ resp.op = "VerifyEmail" /\ resp.status = StatusOK
        /\ req.tok <= Len(users)
        /\ users[req.tok].createdAt = "now"
        /\ resp'.op = "Login" /\ req'.body.kind = "object"
        /\ resp'.msg # "store error"
        /\ users[req.tok].email = req'.body.email
        /\ CompareHashAndPassword(users[req.tok].password, req'.body.password)
        /\ \A j \in 1..Len(users) : users[j].email = req'.body.email => j = req.tok)
       => resp'.status = StatusOK]_vars

\* C4: a record is verified after a step only if it was verified before it
\* or the step is a successful redemption of that record's email token; in
\* particular Register stores verified=false whatever the body says.
VerifiedOnlyByRedemption ==
    [][\A i \in 1..Len(users') :
          users'[i].verified =>
              \/ i <= Len(users) /\ users[i].verified
              \/ /\ resp'.op = "VerifyEmail" /\ resp'.status = StatusOK
                 /\ req'.tok = i]_vars

RegisteredUnverifiedDespiteBody ==
    /\ resp.op = "Register" /\ resp.status = StatusCreated
    /\ req.body.verified
    /\ ~users[Len(users)].verified

\* C5: every stored password is a bcrypt hash, the record Register stores
\* holds the hash of the submitted plaintext and not the plaintext, and a
\* Register that fails (hashing included) stores nothing.
PasswordStoredHashed ==
    [][/\ \A i \in 1..Len(users') : IsHash(users'[i].password)
       /\ (resp'.op = "Register" /\ resp'.status = StatusCreated) =>
             /\ Len(users') = Len(users) + 1
             /\ CompareHashAndPassword(users'[Len(users')].password, req'.body.password)
             /\ users'[Len(users')].password # Str(req'.body.password)
       /\ (resp'.op = "Register" /\ resp'.status # StatusCreated) => users' = users]_vars

RegisteredWithHash ==
    /\ resp.op = "Register" /\ resp.status = StatusCreated
    /\ users[Len(users)].createdAt = "now"
    /\ CompareHashAndPassword(users[Len(users)].password, req.body.password)

\* C6: no two records share an email, and a Register whose email is already
\* in use (and whose password hashes) answers 409 and creates no record.
RegisterEmailUnique ==
    [][/\ DistinctEmails(users')
       /\ (/\ req'.op = "Register" /\ req'.body.kind = "object"
           /\ resp'.msg # "bcrypt error"
           /\ \E i \in 1..Len(users) : users[i].email = req'.body.email)
          => (resp'.status = 409 /\ users' = users)]_vars

\* C7: a redemption attempt that follows a successful redemption of the
\* same issued verification token is answered invalid: a token is never
\* redeemed successfully twice.
VerificationTokenSingleUse ==
    [][(/\ resp.op = "VerifyEmail" /\ resp.status = StatusOK
        /\ req.tok <= Len(users)
        /\ resp'.op = "VerifyEmail" /\ req'.tok = req.tok)
       => resp'.status = StatusBadRequest]_vars

\* C8: a successful refresh sets a new refresh token different from the
\* presented one, and a refresh presenting again the token just exchanged
\* is answered 401.
RefreshRotates ==
    [][resp'.op = "TokenRefresh" =>
           /\ resp'.status = StatusOK => resp'.cookie \notin {0, req'.tok}
           /\ (resp.op = "TokenRefresh" /\ resp.status = StatusOK /\ req'.tok = req.tok)
                 => resp'.status = 401]_vars

\* C9: Register and Login answer 400 to an empty body, to a body that is
\* not JSON and to the literal null, and leave the collection unchanged.
MalformedBodyIsBadRequest ==
    [][(req'.op \in {"Register", "Login"} /\ req'.body.kind \in Malformed) =>
           (resp'.status = StatusBadRequest /\ users' = users)]_vars

\* C10: the process is never ended by the listener goroutine's Fatalf on
\* the ErrServerClosed that Shutdown causes before Shutdown has returned
\* and the deferred Disconnect has run.
ShutdownCompletesBeforeExit ==
    exit = "fatal: listen and serve error: http: Server closed" =>
        (shutdownReturned /\ ~connected)
====
